---- MODULE Spec2Model ----
(***************************************************************************)
(* Model of backend/nutrition_scraper.py (UMassNutritionScraper).          *)
(*                                                                         *)
(* Text is a sequence of one-character strings.  An Optional[...] value is *)
(* None (the empty tuple) or Some(v) (a one-element tuple), so that None   *)
(* is distinct from 0 and from the empty string.  A float is the integer   *)
(* number of 10^-FracDigits units it denotes.                              *)
(*                                                                         *)
(* op, arg, ret, raised and fetched are the call that has just been made:  *)
(* its name, its arguments (the pages the site serves among them), what it *)
(* returned or the detail of what it raised, the exception, and the URLs   *)
(* it requested.  earlier is a history variable: None, or Some of what a   *)
(* caller kept of one scrape_location call (its arguments and outcome) and *)
(* the names of the scrape and search calls made since.                    *)
(*                                                                         *)
(* users and meal_logs are the documents of db.users and db.meal_logs;     *)
(* requests[r] is the r-th request to server.py: its endpoint, its input,  *)
(* the await its handler is suspended at, and its response.                *)
(***************************************************************************)
EXTENDS Integers, Sequences, FiniteSets, TLC

VARIABLES op, arg, ret, raised, fetched, earlier, users, meal_logs, requests

vars == <<op, arg, ret, raised, fetched, earlier, users, meal_logs, requests>>

\* the state of server.py's stores and request handlers
server == <<users, meal_logs, requests>>

\* the state of the scraper's calls
scraper == <<op, arg, ret, raised, fetched, earlier>>

----------------------------------------------------------------------------
(* Bounds of the model *)

MaxStrLen == 3          \* longest text handed to _extract_number_from_text
MaxElems == 2           \* most elements in a document built from ElemPool
MaxRequests == 3        \* most requests made to server.py

FracDigits == MaxStrLen       \* decimal places carried by a float

----------------------------------------------------------------------------
(* Optional values and characters *)

None == <<>>
Some(v) == <<v>>

DigitChars == <<"0", "1", "2", "3", "4", "5", "6", "7", "8", "9">>
UpperChars == <<"A", "B", "C", "D", "E", "F", "G", "H", "I", "J", "K", "L", "M",
                "N", "O", "P", "Q", "R", "S", "T", "U", "V", "W", "X", "Y", "Z">>
LowerChars == <<"a", "b", "c", "d", "e", "f", "g", "h", "i", "j", "k", "l", "m",
                "n", "o", "p", "q", "r", "s", "t", "u", "v", "w", "x", "y", "z">>

Range(s) == {s[i] : i \in 1..Len(s)}

IsDigit(c) == c \in Range(DigitChars)
IsSpace(c) == c = " "
IsUpper(c) == c \in Range(UpperChars)
IsLower(c) == c \in Range(LowerChars)

DigitVal(c) == (CHOOSE i \in 1..10 : DigitChars[i] = c) - 1

\* str.lower() and str.upper(), one character
LowerChar(c) == IF IsUpper(c) THEN LowerChars[CHOOSE i \in 1..26 : UpperChars[i] = c] ELSE c
UpperChar(c) == IF IsLower(c) THEN UpperChars[CHOOSE i \in 1..26 : LowerChars[i] = c] ELSE c

\* str.lower()
lower(s) == [i \in 1..Len(s) |-> LowerChar(s[i])]

\* str.replace(old, new) for one-character old and new
replace(s, old, new) == [i \in 1..Len(s) |-> IF s[i] = old THEN new ELSE s[i]]

\* str.title(): a cased character is upper-cased when the character before it
\* is uncased (or there is none), lower-cased otherwise
title(s) ==
    [i \in 1..Len(s) |->
        IF i > 1 /\ (IsUpper(s[i - 1]) \/ IsLower(s[i - 1]))
        THEN LowerChar(s[i]) ELSE UpperChar(s[i])]

RECURSIVE lstrip(_)
lstrip(s) == IF s # <<>> /\ IsSpace(Head(s)) THEN lstrip(Tail(s)) ELSE s

RECURSIVE rstrip(_)
rstrip(s) ==
    IF s # <<>> /\ IsSpace(s[Len(s)]) THEN rstrip(SubSeq(s, 1, Len(s) - 1)) ELSE s

\* str.strip()
strip(s) == rstrip(lstrip(s))

RECURSIVE Pow10(_)
Pow10(n) == IF n = 0 THEN 1 ELSE 10 * Pow10(n - 1)

RECURSIVE DigitsToNat(_)
DigitsToNat(s) ==
    IF s = <<>> THEN 0
    ELSE 10 * DigitsToNat(SubSeq(s, 1, Len(s) - 1)) + DigitVal(s[Len(s)])

AllDigits(s) == \A i \in 1..Len(s) : IsDigit(s[i])

----------------------------------------------------------------------------
(* Python's int(str) and float(str); None stands for ValueError *)

Unsigned(s) == IF s # <<>> /\ Head(s) \in {"-", "+"} THEN Tail(s) ELSE s
Sign(s) == IF s # <<>> /\ Head(s) = "-" THEN -1 ELSE 1

\* int(s): surrounding whitespace, an optional sign, one or more digits
IntOfStripped(sign, body) ==
    IF body # <<>> /\ AllDigits(body) THEN Some(sign * DigitsToNat(body)) ELSE None

int(s) == IntOfStripped(Sign(strip(s)), Unsigned(strip(s)))

\* float(s): surrounding whitespace, an optional sign, digits with at most
\* one decimal point and at least one digit (no text of the model has more
\* than FracDigits digits after the point)
Points(body) == {i \in 1..Len(body) : body[i] = "."}

\* the value of sign, integer digits ip, fraction digits fp
FloatOfParts(sign, ip, fp) ==
    IF AllDigits(ip) /\ AllDigits(fp) /\ Len(ip) + Len(fp) > 0
    THEN Some(sign * (DigitsToNat(ip) * Pow10(FracDigits)
                        + DigitsToNat(fp) * Pow10(FracDigits - Len(fp))))
    ELSE None

\* the value of the unsigned text body split at its decimal point p
FloatOfBody(sign, body, p) ==
    IF Cardinality(Points(body)) <= 1
    THEN FloatOfParts(sign, SubSeq(body, 1, p - 1), SubSeq(body, p + 1, Len(body)))
    ELSE None

FloatOfStripped(sign, body) ==
    FloatOfBody(sign, body,
                IF Points(body) = {} THEN Len(body) + 1 ELSE CHOOSE i \in Points(body) : TRUE)

float(s) == FloatOfStripped(Sign(strip(s)), Unsigned(strip(s)))

----------------------------------------------------------------------------
(* _extract_number_from_text *)

\* re.sub(r'[^\d.]', '', text.strip())
CleanNumberTextKeepSign(text) ==
    SelectSeq(strip(text), LAMBDA c : IsDigit(c) \/ c = "." \/ c = "-")
CleanNumberText(text) == SelectSeq(strip(text), LAMBDA c : IsDigit(c) \/ c = ".")

\* try: return float(cleaned) if cleaned else None; except ValueError: return None
FloatOrNone(cleaned) == IF cleaned # <<>> THEN float(cleaned) ELSE None

extract_number_from_text(text) ==
    IF text = <<>> THEN None ELSE FloatOrNone(CleanNumberText(text))

----------------------------------------------------------------------------
(* NutritionData and the parsed document *)

NutritionData(name) ==
    [name |-> name, dining_location |-> None, meal_type |-> None,
     serving_size |-> None, calories |-> None, total_fat |-> None,
     saturated_fat |-> None, trans_fat |-> None, cholesterol |-> None,
     sodium |-> None, total_carbohydrates |-> None, dietary_fiber |-> None,
     total_sugars |-> None, protein |-> None]

\* attributes read from the anchor of a li.lightbox-nutrition element
AttrNames ==
    {"data-dish-name", "data-calories", "data-protein", "data-total-fat",
     "data-sat-fat", "data-trans-fat", "data-cholesterol", "data-sodium",
     "data-total-carb", "data-dietary-fiber", "data-sugars", "data-serving-size"}

\* truth value of an Optional[str] (None and "" are false)
StrTruthy(v) == v # None /\ v[1] # <<>>

\* truth value of an Optional number (None, 0 and 0.0 are false)
NumTruthy(v) == v # None /\ v[1] # 0

\* any([calories, protein, total_fat, total_carbohydrates])
HasNutritionDataUnfiltered(n) == TRUE
HasNutritionData(n) ==
    \/ NumTruthy(n.calories)
    \/ NumTruthy(n.protein)
    \/ NumTruthy(n.total_fat)
    \/ NumTruthy(n.total_carbohydrates)

\* if link.get(a): try: field = int(link.get(a)) except (ValueError, TypeError): pass
IntAttr(v) == IF StrTruthy(v) THEN int(v[1]) ELSE None

\* if link.get(a): try: field = self._extract_number_from_text(link.get(a)) ...
NumAttr(v) == IF StrTruthy(v) THEN extract_number_from_text(v[1]) ELSE None

\* if link.get('data-serving-size'): serving_size = link.get('data-serving-size')
TextAttr(v) == IF StrTruthy(v) THEN v ELSE None

\* data-dish-name, or the anchor's get_text(strip=True)
FoodName(item) ==
    IF StrTruthy(item.attrs["data-dish-name"])
    THEN item.attrs["data-dish-name"][1]
    ELSE strip(item.text)

\* len(name) >= 2 (the negation of: not name or len(name) < 2)
ValidNameNonEmpty(name) == name # <<>>
ValidName(name) == name # <<>> /\ Len(name) >= 2

\* if any([...]): nutrition_items.append(nutrition)
Retained(nutrition) == IF HasNutritionData(nutrition) THEN <<nutrition>> ELSE <<>>

\* a first extractor that does not read the carbohydrates
TableQuantitiesNoCarb ==
    { <<"data-protein", "protein">>, <<"data-total-fat", "total_fat">>,
      <<"data-sat-fat", "saturated_fat">>, <<"data-trans-fat", "trans_fat">>,
      <<"data-cholesterol", "cholesterol">>, <<"data-sodium", "sodium">>,
      <<"data-dietary-fiber", "dietary_fiber">>, <<"data-sugars", "total_sugars">> }

\* the (attribute, field) pairs _parse_nutrition_table routes through
\* _extract_number_from_text
TableQuantities ==
    { <<"data-protein", "protein">>, <<"data-total-fat", "total_fat">>,
      <<"data-sat-fat", "saturated_fat">>, <<"data-trans-fat", "trans_fat">>,
      <<"data-cholesterol", "cholesterol">>, <<"data-sodium", "sodium">>,
      <<"data-total-carb", "total_carbohydrates">>,
      <<"data-dietary-fiber", "dietary_fiber">>, <<"data-sugars", "total_sugars">> }

\* a second loop that does not read the carbohydrates
RescanQuantitiesNoCarb ==
    { <<"data-protein", "protein">>, <<"data-total-fat", "total_fat">> }

\* the (attribute, field) pairs of the second loop of _parse_nutrition_cards
RescanQuantities ==
    { <<"data-protein", "protein">>, <<"data-total-fat", "total_fat">>,
      <<"data-total-carb", "total_carbohydrates">> }

\* the record of an entry named name with attributes a: calories by int,
\* the quantities by _extract_number_from_text, the serving size as it is
EntryRecord(name, a, quantities) ==
    [f \in DOMAIN NutritionData(name) |->
        IF f = "calories" THEN IntAttr(a["data-calories"])
        ELSE IF f = "serving_size" THEN TextAttr(a["data-serving-size"])
        ELSE IF \E q \in quantities : q[2] = f
        THEN NumAttr(a[(CHOOSE q \in quantities : q[2] = f)[1]])
        ELSE NutritionData(name)[f]]

\* body of the loop of _parse_nutrition_table: the records one element adds
TableEntry(item) ==
    IF ~item.link THEN <<>>
    ELSE IF ~ValidName(FoodName(item)) THEN <<>>
    ELSE Retained(EntryRecord(FoodName(item), item.attrs, TableQuantities))

\* soup.find_all(['li'], class_='lightbox-nutrition')
LightboxItems(soup) == SelectSeq(soup, LAMBDA e : e.kind = "li")

\* the records the passes of a loop appended, in order
RECURSIVE Appended(_)
Appended(passes) ==
    IF passes = <<>> THEN <<>> ELSE Head(passes) \o Appended(Tail(passes))

\* a loop that an entry without a link ends
parse_nutrition_table_break(soup) ==
    LET items == LightboxItems(soup)
        linked == {i \in 1..Len(items) : \A j \in 1..i : items[j].link}
    IN  Appended([i \in 1..Cardinality(linked) |-> TableEntry(items[i])])

parse_nutrition_table(soup) ==
    LET items == LightboxItems(soup)
    IN  Appended([i \in 1..Len(items) |-> TableEntry(items[i])])

----------------------------------------------------------------------------
(* Regular expressions of _parse_nutrition_cards (all with re.I) *)

\* index after the longest run of digits starting at i: \d+ or \d*
RECURSIVE DigitsEnd(_, _)
DigitsEnd(t, i) == IF i <= Len(t) /\ IsDigit(t[i]) THEN DigitsEnd(t, i + 1) ELSE i

\* index after the whitespace starting at i: \s*
RECURSIVE SpacesEnd(_, _)
SpacesEnd(t, i) == IF i <= Len(t) /\ IsSpace(t[i]) THEN SpacesEnd(t, i + 1) ELSE i

\* the literal w matches at i, ignoring case
LiteralAt(t, i, w) ==
    /\ i + Len(w) - 1 <= Len(t)
    /\ \A k \in 1..Len(w) : LowerChar(t[i + k - 1]) = w[k]

\* index after \d+ (frac = FALSE) or \d+(?:\.\d+)? (frac = TRUE) starting at
\* i, or 0.  The quantifiers are greedy and what follows the number in every
\* pattern starts with whitespace or a letter, so only the longest number at
\* i can be followed by a match.
NumberEnd(t, i, frac) ==
    IF i > Len(t) \/ ~IsDigit(t[i]) THEN 0
    ELSE LET j == DigitsEnd(t, i)
         IN  IF frac /\ j + 1 <= Len(t) /\ t[j] = "." /\ IsDigit(t[j + 1])
             THEN DigitsEnd(t, j + 1) ELSE j

\* \s*g?\s* starting at i: index where the keyword has to start
UnitGap(t, i) ==
    LET j == SpacesEnd(t, i)
    IN  IF j <= Len(t) /\ LowerChar(t[j]) = "g" THEN SpacesEnd(t, j + 1) ELSE j

\* re.search(r'(\d+)\s*cal', t, re.I) for frac = FALSE, gram = FALSE, and
\* re.search(r'(\d+(?:\.\d+)?)\s*g?\s*<word>', t, re.I) for both TRUE:
\* group(1) of the leftmost match, or None
SearchQuantity(t, frac, gram, word) ==
    LET After(i) == IF gram THEN UnitGap(t, NumberEnd(t, i, frac))
                    ELSE SpacesEnd(t, NumberEnd(t, i, frac))
        hits == {i \in 1..Len(t) :
                    NumberEnd(t, i, frac) # 0 /\ LiteralAt(t, After(i), word)}
    IN  IF hits = {} THEN None
        ELSE LET i == CHOOSE h \in hits : \A g \in hits : h <= g
             IN  Some(SubSeq(t, i, NumberEnd(t, i, frac) - 1))

cal == <<"c", "a", "l">>
protein == <<"p", "r", "o", "t", "e", "i", "n">>
fat == <<"f", "a", "t">>
carb == <<"c", "a", "r", "b">>
serving == <<"s", "e", "r", "v", "i", "n", "g">>

\* the alternation (oz|g|ml|cup|tbsp), in its order of preference
ServingUnits ==
    << <<"o", "z">>, <<"g">>, <<"m", "l">>, <<"c", "u", "p">>, <<"t", "b", "s", "p">> >>

\* length of the first alternative of (oz|g|ml|cup|tbsp) matching at i, or 0
UnitLenAt(t, i) ==
    LET ks == {k \in 1..Len(ServingUnits) : LiteralAt(t, i, ServingUnits[k])}
    IN  IF ks = {} THEN 0
        ELSE Len(ServingUnits[CHOOSE k \in ks : \A m \in ks : k <= m])

\* re.search(r'serving.*?(\d+(?:\.\d+)?)\s*(oz|g|ml|cup|tbsp)', t, re.I):
\* f"{group(1)} {group(2)}" of the leftmost match with the shortest .*?
SearchServing(t) ==
    LET Unit(p) == SpacesEnd(t, NumberEnd(t, p, TRUE))
        Nums(s) == {p \in (s + Len(serving))..Len(t) :
                       NumberEnd(t, p, TRUE) # 0 /\ UnitLenAt(t, Unit(p)) # 0}
        starts == {s \in 1..Len(t) : LiteralAt(t, s, serving) /\ Nums(s) # {}}
    IN  IF starts = {} THEN None
        ELSE LET s == CHOOSE x \in starts : \A y \in starts : x <= y
                 p == CHOOSE x \in Nums(s) : \A y \in Nums(s) : x <= y
             IN  Some(SubSeq(t, p, NumberEnd(t, p, TRUE) - 1) \o <<" ">>
                      \o SubSeq(t, Unit(p), Unit(p) + UnitLenAt(t, Unit(p)) - 1))

\* if m: field = int(m.group(1)) / float(m.group(1))
IntOf(m) == IF m # None THEN int(m[1]) ELSE None
FloatOf(m) == IF m # None THEN float(m[1]) ELSE None

----------------------------------------------------------------------------
(* _parse_nutrition_cards *)

\* card.get_text(): the text of the name element followed by the rest
CardText(card) == (IF card.hasName THEN card.nameText ELSE <<>>) \o card.body

\* body of the first loop of _parse_nutrition_cards
\* the record of a card named name whose full text is nutrition_text
CardRecord(name, nutrition_text) ==
    [NutritionData(name) EXCEPT
        !.calories = IntOf(SearchQuantity(nutrition_text, FALSE, FALSE, cal)),
        !.protein = FloatOf(SearchQuantity(nutrition_text, TRUE, TRUE, protein)),
        !.total_fat = FloatOf(SearchQuantity(nutrition_text, TRUE, TRUE, fat)),
        !.total_carbohydrates = FloatOf(SearchQuantity(nutrition_text, TRUE, TRUE, carb)),
        !.serving_size = SearchServing(nutrition_text)]

CardEntry(card) ==
    IF ~card.hasName THEN <<>>
    ELSE IF ~ValidName(strip(card.nameText)) THEN <<>>
    ELSE Retained(CardRecord(strip(card.nameText), CardText(card)))

\* body of the second loop of _parse_nutrition_cards (the UMass structure)
RescanEntry(item) ==
    IF ~item.link THEN <<>>
    ELSE IF ~ValidName(FoodName(item)) THEN <<>>
    ELSE Retained(EntryRecord(FoodName(item), item.attrs, RescanQuantities))

\* soup.find_all(['div', 'article'], class_=re.compile(r'card|item|dish|food|menu-item', re.I))
NutritionCards(soup) == SelectSeq(soup, LAMBDA e : e.kind = "card")

parse_nutrition_cards(soup) ==
    LET nutrition_cards == NutritionCards(soup)
        umass_items == LightboxItems(soup)
    IN  Appended([i \in 1..Len(nutrition_cards) |-> CardEntry(nutrition_cards[i])])
            \o Appended([i \in 1..Len(umass_items) |-> RescanEntry(umass_items[i])])

----------------------------------------------------------------------------
(* The location registry and scrape_location *)

berkshire == <<"b", "e", "r", "k", "s", "h", "i", "r", "e">>
franklin == <<"f", "r", "a", "n", "k", "l", "i", "n">>
worcester == <<"w", "o", "r", "c", "e", "s", "t", "e", "r">>
hampshire == <<"h", "a", "m", "p", "s", "h", "i", "r", "e">>

\* list(self.all_locations.keys()): dining_halls, then campus_eateries (empty)
all_locations == <<berkshire, franklin, worcester, hampshire>>

\* self.all_locations[key]
Url(key) == [base_url |-> "https://umassdining.com", path |-> <<"locations-menus", key, "menu">>]

\* outcome of a call: a returned value, or a raised exception
Return(value, urls) == [raised |-> "none", value |-> value, fetched |-> urls]
Raise(exc, detail, urls) == [raised |-> exc, value |-> detail, fetched |-> urls]

\* location_name.lower().replace(' ', '_')
LocationKey(location_name) == replace(lower(location_name), " ", "_")

\* a format that puts the first letter in upper case and leaves the others
FormatLocationUpperFirst(location_name) ==
    [i \in 1..Len(location_name) |->
        IF i = 1 THEN UpperChar(location_name[i])
        ELSE IF location_name[i] = "_" THEN " " ELSE location_name[i]]

\* the location name as the caller wrote it
FormatLocationRaw(location_name) == location_name
\* location_name.replace('_', ' ').title()
FormatLocation(location_name) == title(replace(location_name, "_", " "))

\* item.name.lower(): the key names are compared by
DedupKeyExact(name) == name
DedupKey(name) == lower(name)

\* the loop over nutrition_items in scrape_location: keep the first record of
\* each lower-cased name and set its location and meal type
RECURSIVE Unique(_, _, _)
Unique(items, seen_names, location_name) ==
    IF items = <<>> THEN <<>>
    ELSE LET item == Head(items)
         IN  IF DedupKey(item.name) \notin seen_names
             THEN <<[item EXCEPT !.dining_location = Some(FormatLocation(location_name)),
                                 !.meal_type = Some("Lunch")]>>
                  \o Unique(Tail(items), seen_names \cup {DedupKey(item.name)}, location_name)
             ELSE Unique(Tail(items), seen_names, location_name)

\* nutrition_items after both extend() calls
ExtractedCardsFirst(soup) == parse_nutrition_cards(soup) \o parse_nutrition_table(soup)
Extracted(soup) == parse_nutrition_table(soup) \o parse_nutrition_cards(soup)

\* seen_names = set(): the names seen when the loop starts
seen_names_kept ==
    IF earlier # None /\ earlier[1].raised = "none"
    THEN {DedupKey(r.name) : r \in Range(earlier[1].ret)}
    ELSE {}
seen_names == {}

\* f"Unknown location: {location_name}. Available locations: {list(keys)}"
UnknownLocationBare(location_name) == [unknown |-> location_name, available |-> <<>>]
UnknownLocation(location_name) == [unknown |-> location_name, available |-> all_locations]

\* scrape_location(location_name) when the site answers site[key] for a key:
\* [ok |-> FALSE] is a requests.RequestException from get or raise_for_status
ScrapeKey(location_name, key, site) ==
    IF key \notin Range(all_locations)
    THEN Raise("ValueError", UnknownLocation(location_name), <<>>)
    ELSE IF ~site[key].ok
    THEN Raise("RequestException", Url(key), <<Url(key)>>)
    ELSE Return(Unique(Extracted(site[key].soup), seen_names, location_name), <<Url(key)>>)

scrape_location(location_name, site) ==
    ScrapeKey(location_name, LocationKey(location_name), site)

----------------------------------------------------------------------------
(* search_food_nutrition *)

\* needle in hay
Contains(hay, needle) ==
    \E i \in 0..(Len(hay) - Len(needle)) : SubSeq(hay, i + 1, i + Len(needle)) = needle

\* a filter that compares the names as they are written
MatchingCaseSensitive(nutrition_data, food_name) ==
    SelectSeq(nutrition_data, LAMBDA item : Contains(item.name, food_name))

\* [item for item in nutrition_data if food_name.lower() in item.name.lower()]
Matching(nutrition_data, food_name) ==
    SelectSeq(nutrition_data, LAMBDA item : Contains(lower(item.name), lower(food_name)))

\* the re-stamping of the matching items in the all-locations loop
Restamp(items, location_name) ==
    [i \in 1..Len(items) |->
        [items[i] EXCEPT !.dining_location = Some(FormatLocation(location_name)),
                         !.meal_type = Some("Lunch")]]

\* a loop that a failing location ends
SearchPassAbort(food_name, location_name, r, rest) ==
    IF r.raised # "none"
    THEN Return(<<>>, r.fetched)
    ELSE Return(Restamp(Matching(r.value, food_name), location_name) \o rest.value,
                r.fetched \o rest.fetched)

\* a loop that keeps one record per name over all locations
SearchPassDedup(food_name, location_name, r, rest) ==
    IF r.raised # "none"
    THEN Return(rest.value, r.fetched \o rest.fetched)
    ELSE Return(Restamp(Matching(r.value, food_name), location_name)
                    \o SelectSeq(rest.value,
                                 LAMBDA item : \A m \in Range(r.value) :
                                                  lower(m.name) # lower(item.name)),
                r.fetched \o rest.fetched)

\* one pass of the loop over self.all_locations.keys(): r is the outcome of
\* scrape_location(location_name), rest the outcome of the passes after it
SearchPass(food_name, location_name, r, rest) ==
    IF r.raised # "none"
    THEN Return(rest.value, r.fetched \o rest.fetched)
    ELSE Return(Restamp(Matching(r.value, food_name), location_name) \o rest.value,
                r.fetched \o rest.fetched)

\* the loop over self.all_locations.keys(), from the k-th key on
RECURSIVE SearchAll(_, _, _)
SearchAll(food_name, site, k) ==
    IF k > Len(all_locations) THEN Return(<<>>, <<>>)
    ELSE SearchPass(food_name, all_locations[k],
                    scrape_location(all_locations[k], site),
                    SearchAll(food_name, site, k + 1))

\* the single-location branch: r is the outcome of scrape_location(location)
SearchOne(food_name, r) ==
    IF r.raised # "none"
    THEN Return(<<>>, r.fetched)
    ELSE Return(Matching(r.value, food_name), r.fetched)

\* search_food_nutrition(food_name, location); location is None or Some(text)
search_food_nutrition(food_name, location, site) ==
    IF StrTruthy(location)
    THEN SearchOne(food_name, scrape_location(location[1], site))
    ELSE SearchAll(food_name, site, 1)

----------------------------------------------------------------------------
(* scrape_all_locations *)

\* all_data[key] = value
Assigned(all_data, key, value) ==
    [k \in DOMAIN all_data \cup {key} |-> IF k = key THEN value ELSE all_data[k]]

\* a loop in which a failing location gets no entry
ScrapeAllPassNoEntry(done, location_name, r) ==
    IF r.raised # "none"
    THEN Return(done.value, done.fetched \o r.fetched)
    ELSE Return(Assigned(done.value, location_name, r.value), done.fetched \o r.fetched)

\* one pass of the loop over self.all_locations.keys(): done is the outcome
\* of the passes before it, r the outcome of scrape_location(location_name)
ScrapeAllPass(done, location_name, r) ==
    IF r.raised # "none"
    THEN Return(Assigned(done.value, location_name, <<>>), done.fetched \o r.fetched)
    ELSE Return(Assigned(done.value, location_name, r.value), done.fetched \o r.fetched)

\* the loop over self.all_locations.keys(), from the k-th key on
RECURSIVE ScrapeAllFrom(_, _, _)
ScrapeAllFrom(done, site, k) ==
    IF k > Len(all_locations) THEN done
    ELSE ScrapeAllFrom(ScrapeAllPass(done, all_locations[k],
                                     scrape_location(all_locations[k], site)),
                       site, k + 1)

\* scrape_all_locations(): all_data = {} before the loop
scrape_all_locations(site) == ScrapeAllFrom(Return(<<>>, <<>>), site, 1)

----------------------------------------------------------------------------
(* server.py: GET /api/nutrition/scrape/{location} *)

\* raise HTTPException(status_code=..., detail=...)
HTTPException(status_code, detail, urls) ==
    [raised |-> "HTTPException", value |-> [status_code |-> status_code, detail |-> detail],
     fetched |-> urls]

\* the endpoint's answer to the outcome r of scrape_location(location)
ScrapeResponse(location, r) ==
    IF r.raised = "ValueError" THEN HTTPException(400, r.value, r.fetched)
    ELSE IF r.raised # "none" THEN HTTPException(500, r.value, r.fetched)
    ELSE Return([location |-> location, items_count |-> Len(r.value),
                 nutrition_data |-> r.value], r.fetched)

scrape_location_nutrition(location, site) ==
    ScrapeResponse(location, scrape_location(location, site))

----------------------------------------------------------------------------
(* server.py: POST /api/nutrition/scrape-all *)

\* sum(len(items) for items in all_data.values()), over the keys in keys
RECURSIVE TotalItems(_, _)
TotalItems(all_data, keys) ==
    IF keys = {} THEN 0
    ELSE LET key == CHOOSE k \in keys : TRUE
         IN  Len(all_data[key]) + TotalItems(all_data, keys \ {key})

\* the endpoint's answer to the outcome r of scrape_all_locations()
ScrapeAllResponse(r) ==
    IF r.raised # "none" THEN HTTPException(500, r.value, r.fetched)
    ELSE Return([locations_scraped |-> Cardinality(DOMAIN r.value),
                 total_items |-> TotalItems(r.value, DOMAIN r.value),
                 data |-> r.value], r.fetched)

scrape_all(site) == ScrapeAllResponse(scrape_all_locations(site))

----------------------------------------------------------------------------
(* Inputs: texts, document elements, documents, locations *)

\* characters of the texts handed to _extract_number_from_text
NumberChars == {"0", "5", ".", "-", "g", " "}

Texts == UNION {[1..n -> NumberChars] : n \in 0..MaxStrLen}

NoAttrs == [a \in AttrNames |-> None]

\* <li class="lightbox-nutrition"><a ...attrs>text</a></li>
Li(attrs, text) == [kind |-> "li", link |-> TRUE, attrs |-> attrs, text |-> text]

\* <li class="lightbox-nutrition"> without an anchor
LiNoLink == [kind |-> "li", link |-> FALSE, attrs |-> NoAttrs, text |-> <<>>]

\* <div class="menu-item"><span class="name">nameText</span>body</div>
Card(nameText, body) == [kind |-> "card", hasName |-> TRUE, nameText |-> nameText, body |-> body]

\* a card container without a name element
CardNoName(body) == [kind |-> "card", hasName |-> FALSE, nameText |-> <<>>, body |-> body]

Named(name) == [NoAttrs EXCEPT !["data-dish-name"] = Some(name)]

T320 == <<"3", "2", "0">>
T10g == <<"1", "0", "g">>
T8g == <<"8", "g">>
T2g == <<"2", "g">>
T0g == <<"0", "g">>
Tabc == <<"a", "b", "c">>
TMinus5 == <<"-", "5">>
T6oz == <<"6", " ", "o", "z">>

\* " 450 cal 8g protein"
Body450 ==
    <<" ", "4", "5", "0", " ", "c", "a", "l", " ", "8", "g", " ",
      "p", "r", "o", "t", "e", "i", "n">>

\* " 90 Cal 1.5 G Fat 12g carbs serving size: 6 oz"
BodyMixed ==
    <<" ", "9", "0", " ", "C", "a", "l", " ", "1", ".", "5", " ", "G", " ", "F", "a", "t",
      " ", "1", "2", "g", " ", "c", "a", "r", "b", "s", " ",
      "s", "e", "r", "v", "i", "n", "g", " ", "s", "i", "z", "e", ":", " ", "6", " ", "o", "z">>

\* " 0 cal"
BodyZero == <<" ", "0", " ", "c", "a", "l">>

\* " -5 cal 0g protein"
BodyMinus ==
    <<" ", "-", "5", " ", "c", "a", "l", " ", "0", "g", " ",
      "p", "r", "o", "t", "e", "i", "n">>

\* " fresh daily"
BodyNoData == <<" ", "f", "r", "e", "s", "h", " ", "d", "a", "i", "l", "y">>

\* elements the documents of several elements are built from
ElemPool ==
    { Li([Named(<<"A", "b">>) EXCEPT !["data-calories"] = Some(T320),
                                      !["data-protein"] = Some(T10g)], <<"A", "b">>),
      Li([Named(<<"a", "B">>) EXCEPT !["data-calories"] = Some(<<"5">>),
                                      !["data-total-fat"] = Some(T2g),
                                      !["data-sodium"] = Some(<<"7">>),
                                      !["data-serving-size"] = Some(T6oz)], <<>>),
      Li([Named(<<"X">>) EXCEPT !["data-calories"] = Some(T320),
                                !["data-protein"] = Some(T10g),
                                !["data-total-fat"] = Some(T2g),
                                !["data-total-carb"] = Some(T8g)], <<"X">>),
      Li([Named(<<"C", "d">>) EXCEPT !["data-calories"] = Some(Tabc),
                                      !["data-protein"] = Some(T8g)], <<>>),
      Li([Named(<<"E", "f">>) EXCEPT !["data-calories"] = Some(<<"0">>)], <<>>),
      Li([Named(<<"G", "h">>) EXCEPT !["data-calories"] = Some(TMinus5)], <<>>),
      Li([NoAttrs EXCEPT !["data-total-carb"] = Some(<<"3">>)], <<" ", "A", "b", " ">>),
      LiNoLink,
      Card(<<"A", "b">>, Body450),
      Card(<<" ", "V", "w">>, BodyMixed),
      Card(<<"X">>, Body450),
      Card(<<"Z", "z">>, BodyZero),
      Card(<<"I", "j">>, BodyNoData),
      CardNoName(Body450) }

\* values tried for each attribute on its own
AttrValues ==
    { T320, <<"0">>, TMinus5, Tabc, T10g, T0g, <<"1", ".", "5">>,
      <<"1", ".", "2", ".", "3">>, <<"-", "-">>, <<" ", "7", " ">>, <<>> }

NumericAttrs == AttrNames \ {"data-dish-name", "data-serving-size"}

\* one entry named "Ef" with one attribute set, with and without a protein
SingleAttrEntries ==
    { Li([base EXCEPT ![a] = Some(v)], <<>>) :
        a \in NumericAttrs, v \in AttrValues,
        base \in { Named(<<"E", "f">>),
                   [Named(<<"E", "f">>) EXCEPT !["data-protein"] = Some(T8g)] } }

\* cards tried on their own
SingleCards ==
    { Card(n, b) : n \in { <<"V", "w">>, <<"V">>, <<" ", " ">> },
                   b \in { Body450, BodyMixed, BodyZero, BodyMinus, BodyNoData } }

\* a list in which an entry without a link stands between two entries of one
\* name
ListDoc ==
    << Li([Named(<<"A", "b">>) EXCEPT !["data-calories"] = Some(T320)], <<>>),
       LiNoLink,
       Li([Named(<<"A", "b">>) EXCEPT !["data-protein"] = Some(T8g)], <<>>) >>

Docs ==
    UNION {[1..n -> ElemPool] : n \in 0..MaxElems}
        \cup {<<e>> : e \in SingleAttrEntries \cup SingleCards}
        \cup {ListDoc}

\* a page with two entries and a card that has the name of the second
MixedDoc ==
    << Li([Named(<<"a", "B">>) EXCEPT !["data-calories"] = Some(<<"5">>)], <<>>),
       Card(<<" ", "V", "w">>, BodyMixed),
       Li([Named(<<"V", "W">>) EXCEPT !["data-total-fat"] = Some(T2g)], <<>>) >>

\* a page with two cards
CardDoc == << Card(<<"A", "b">>, Body450), Card(<<"Z", "z">>, Body450) >>

\* documents served to search_food_nutrition and to the endpoint
SweepDocs ==
    { <<>>,
      << Li([Named(<<"A", "b">>) EXCEPT !["data-calories"] = Some(T320),
                                         !["data-protein"] = Some(T10g)], <<>>) >>,
      CardDoc,
      MixedDoc }

Page(soup) == [ok |-> TRUE, soup |-> soup]
Down == [ok |-> FALSE]

\* spellings of the location argument
LocationNames ==
    { berkshire,
      <<"B", "e", "r", "k", "s", "h", "i", "r", "e">>,
      <<"F", "R", "A", "N", "K", "L", "I", "N">>,
      <<"b", "e", "r", "k", " ", "s", "h", "i", "r", "e">>,
      <<"g", "r", "i", "l", "l">> }

\* search terms
Queries == { <<>>, <<"B">>, <<"v", "W">> }

\* what a location answers to a call that visits all of them: a page with
\* entries, or a failure
SweepPages == {Page(CardDoc), Page(MixedDoc), Down}

\* the keys scrape_location fetches for this location argument
FetchedKeys(location_name) ==
    {LocationKey(location_name)} \cap Range(all_locations)

----------------------------------------------------------------------------
(* server.py: requests, users and meal logs *)

\* a request that has not been made
NoRequest ==
    [endpoint |-> "none", pc |-> "new", current_user |-> None, input |-> None,
     status_code |-> 0, detail |-> None]

\* a request whose handler is suspended at an await
Awaiting(endpoint, pc, current_user, input) ==
    [endpoint |-> endpoint, pc |-> pc, current_user |-> current_user,
     input |-> Some(input), status_code |-> 0, detail |-> None]

\* a request whose handler has returned or raised HTTPException
Responded(request, status_code, detail) ==
    [request EXCEPT !.pc = "done", !.status_code = status_code, !.detail = Some(detail)]

\* the request bodies of POST /api/register (UserCreate)
UserCreates ==
    { [username |-> n, email |-> e, password |-> "pw"] :
        n \in {"ann", "bob"}, e \in {"ann@umass.edu", "ann@gmail.com"} }

\* the users requests are made as: get_current_user has resolved the token
CurrentUsers == {"ann", "bob"}

\* the request bodies of POST /api/meals/log (MealLogCreate)
MealLogCreates ==
    { [food_name |-> "Pasta", dining_location |-> "Berkshire", meal_type |-> "Lunch",
       portion_size |-> 1, calories |-> 320, protein |-> 10, carbs |-> 40, fat |-> 8,
       date |-> "2024-01-15"] }

----------------------------------------------------------------------------
(* The calls *)

\* no call is in progress and the last outcome has been consumed
Idle ==
    /\ op = "idle"
    /\ arg = <<>>
    /\ ret = <<>>
    /\ raised = "none"
    /\ fetched = <<>>

Init ==
    /\ Idle
    /\ earlier = None
    /\ users = {}
    /\ meal_logs = {}
    /\ requests = [r \in 1..MaxRequests |-> NoRequest]

Outcome(r) ==
    /\ ret' = r.value
    /\ raised' = r.raised
    /\ fetched' = r.fetched

ExtractNumber ==
    /\ op = "idle"
    /\ \E text \in Texts :
        /\ op' = "_extract_number_from_text"
        /\ arg' = [text |-> text]
        /\ Outcome(Return(extract_number_from_text(text), <<>>))
        /\ UNCHANGED <<earlier, server>>

ParseTable ==
    /\ op = "idle"
    /\ \E soup \in Docs :
        /\ op' = "_parse_nutrition_table"
        /\ arg' = [soup |-> soup]
        /\ Outcome(Return(parse_nutrition_table(soup), <<>>))
        /\ UNCHANGED <<earlier, server>>

ParseCards ==
    /\ op = "idle"
    /\ \E soup \in Docs :
        /\ op' = "_parse_nutrition_cards"
        /\ arg' = [soup |-> soup]
        /\ Outcome(Return(parse_nutrition_cards(soup), <<>>))
        /\ UNCHANGED <<earlier, server>>

\* scraper.scrape_location(location_name) while the site serves one of pages
ScrapeLocationOf(pages) ==
    /\ op = "idle"
    /\ \E location_name \in LocationNames \cup {<<>>} :
        \E site \in [FetchedKeys(location_name) -> pages] :
            /\ op' = "scrape_location"
            /\ arg' = [location_name |-> location_name, site |-> site]
            /\ Outcome(scrape_location(location_name, site))
            /\ UNCHANGED <<earlier, server>>

ScrapeLocation == ScrapeLocationOf({Page(d) : d \in Docs} \cup {Down})

\* scraper.search_food_nutrition(food_name, location) while the site serves
\* one of pages
SearchFoodNutritionOf(pages) ==
    /\ op = "idle"
    /\ \E food_name \in Queries, location \in {Some(l) : l \in LocationNames} \cup {None, Some(<<>>)} :
        \E site \in IF StrTruthy(location)
                    THEN [FetchedKeys(location[1]) -> pages \cup {Page(d) : d \in SweepDocs}]
                    ELSE [Range(all_locations) -> pages] :
            /\ op' = "search_food_nutrition"
            /\ arg' = [food_name |-> food_name, location |-> location, site |-> site]
            /\ Outcome(search_food_nutrition(food_name, location, site))
            /\ UNCHANGED <<earlier, server>>

SearchFoodNutrition == SearchFoodNutritionOf(SweepPages)

\* GET /api/nutrition/scrape/{location}
ScrapeLocationNutrition ==
    /\ op = "idle"
    /\ \E location \in LocationNames :
        \E site \in [FetchedKeys(location) -> {Page(d) : d \in SweepDocs} \cup {Down}] :
            /\ op' = "scrape_location_nutrition"
            /\ arg' = [location |-> location, site |-> site]
            /\ Outcome(scrape_location_nutrition(location, site))
            /\ UNCHANGED <<earlier, server>>

\* what is kept of an earlier call once the call named name has been made too
Since(kept, name) ==
    IF kept = None THEN None
    ELSE Some([kept[1] EXCEPT !.between =
                   @ \cup ({name} \cap {"scrape_location", "search_food_nutrition"})])

\* scraper.scrape_all_locations()
ScrapeAllLocations ==
    /\ op = "idle"
    /\ \E site \in [Range(all_locations) -> SweepPages] :
        /\ op' = "scrape_all_locations"
        /\ arg' = [site |-> site]
        /\ Outcome(scrape_all_locations(site))
        /\ UNCHANGED <<earlier, server>>

\* POST /api/nutrition/scrape-all
ScrapeAll ==
    /\ op = "idle"
    /\ \E site \in [Range(all_locations) -> {Page(MixedDoc), Down}] :
        /\ op' = "scrape_all"
        /\ arg' = [site |-> site]
        /\ Outcome(scrape_all(site))
        /\ UNCHANGED <<earlier, server>>

\* the caller takes the outcome; the scraper keeps nothing of the call
Finish ==
    /\ op # "idle"
    /\ op' = "idle"
    /\ arg' = <<>>
    /\ ret' = <<>>
    /\ raised' = "none"
    /\ fetched' = <<>>
    /\ earlier' = Since(earlier, op)
    /\ UNCHANGED server

\* the caller takes the outcome of a scrape_location call and keeps it, to
\* hold it against a later call with the same arguments
FinishKept ==
    /\ op = "scrape_location"
    /\ earlier = None
    /\ op' = "idle"
    /\ arg' = <<>>
    /\ ret' = <<>>
    /\ raised' = "none"
    /\ fetched' = <<>>
    /\ earlier' = Some([arg |-> arg, ret |-> ret, raised |-> raised, between |-> {}])
    /\ UNCHANGED server

Next ==
    \/ ExtractNumber
    \/ ParseTable
    \/ ParseCards
    \/ ScrapeLocation
    \/ SearchFoodNutrition
    \/ ScrapeLocationNutrition
    \/ ScrapeAllLocations
    \/ ScrapeAll
    \/ Finish

Spec == Init /\ [][Next]_vars

\* scrape_location called again after other calls: the calls that fetch, over
\* few pages, with the outcome of one scrape_location call kept
ScrapeLocationSwept == ScrapeLocationOf(SweepPages)

SearchFoodNutritionSwept == SearchFoodNutritionOf({Page(MixedDoc), Down})

NextRepeat ==
    \/ ScrapeLocationSwept
    \/ SearchFoodNutritionSwept
    \/ Finish
    \/ FinishKept

SpecRepeat == Init /\ [][NextRepeat]_vars

----------------------------------------------------------------------------
(* server.py: POST /api/register *)

\* the next request: requests are numbered in the order they are made
NextRequest(r) ==
    /\ requests[r].pc = "new"
    /\ \A q \in 1..(r - 1) : requests[q].pc # "new"

\* hash_password(password)
hash_password(password) == <<"bcrypt", password>>

\* user.dict() with password_hash; id is the uuid4 of this request
UserDict(r, user_data) ==
    [id |-> r, username |-> user_data.username, email |-> user_data.email,
     password_hash |-> hash_password(user_data.password)]

\* await db.users.find_one({"email": user_data.email})
ExistingUsers(email) == {u \in users : u.email = email}

\* Token(access_token=create_access_token({"sub": user.id}), ...)
Token(user_dict) ==
    [access_token |-> [sub |-> user_dict.id], token_type |-> "bearer",
     user |-> [id |-> user_dict.id, username |-> user_dict.username,
               email |-> user_dict.email]]

\* register up to its second await: find_one has answered, and the handler
\* raises or goes on to insert_one
Register ==
    \E r \in 1..MaxRequests, user_data \in UserCreates :
        /\ NextRequest(r)
        /\ requests' =
              [requests EXCEPT ![r] =
                  IF ExistingUsers(user_data.email) # {}
                  THEN Responded(Awaiting("register", "find_one", None, user_data),
                                 400, "Email already registered")
                  ELSE Awaiting("register", "insert_one", None, user_data)]
        /\ UNCHANGED <<users, meal_logs, scraper>>

\* register from its second await on: insert_one is done and the token
\* returned
RegisterInsert ==
    \E r \in 1..MaxRequests :
        /\ requests[r].endpoint = "register"
        /\ requests[r].pc = "insert_one"
        /\ users' = users \cup {UserDict(r, requests[r].input[1])}
        /\ requests' = [requests EXCEPT ![r] =
                            Responded(@, 200, Token(UserDict(r, requests[r].input[1])))]
        /\ UNCHANGED <<meal_logs, scraper>>

NextRegister ==
    \/ Register
    \/ RegisterInsert

SpecRegister == Init /\ [][NextRegister]_vars

----------------------------------------------------------------------------
(* server.py: POST /api/meals/log and DELETE /api/meals/{meal_id} *)

\* meal_log.dict() with _id set to id; id is the uuid4 of this request
MealDict(r, current_user, meal_data) ==
    [f \in DOMAIN meal_data \cup {"_id", "id", "user_id"} |->
        IF f \in {"_id", "id"} THEN r
        ELSE IF f = "user_id" THEN current_user
        ELSE meal_data[f]]

\* a filter that names the meal only
AnyUsersMeal(meal, meal_id, current_user) == meal["_id"] = meal_id

\* the filter {"_id": meal_id, "user_id": current_user.id}
OwnMeal(meal, meal_id, current_user) ==
    meal["_id"] = meal_id /\ meal.user_id = current_user

\* log_meal: insert_one is its only await
LogMeal ==
    \E r \in 1..MaxRequests, current_user \in CurrentUsers, meal_data \in MealLogCreates :
        /\ NextRequest(r)
        /\ meal_logs' = meal_logs \cup {MealDict(r, current_user, meal_data)}
        /\ requests' =
              [requests EXCEPT ![r] =
                  Responded(Awaiting("log_meal", "insert_one", Some(current_user), meal_data),
                            200, MealDict(r, current_user, meal_data))]
        /\ UNCHANGED <<users, scraper>>

\* delete_meal up to its second await: find_one has answered, and the
\* handler raises or goes on to delete_one
DeleteMeal ==
    \E r \in 1..MaxRequests, current_user \in CurrentUsers, meal_id \in 1..MaxRequests :
        /\ NextRequest(r)
        /\ requests' =
              [requests EXCEPT ![r] =
                  IF \E meal \in meal_logs : OwnMeal(meal, meal_id, current_user)
                  THEN Awaiting("delete_meal", "delete_one", Some(current_user), meal_id)
                  ELSE Responded(Awaiting("delete_meal", "find_one", Some(current_user), meal_id),
                                 404, "Meal not found or access denied")]
        /\ UNCHANGED <<users, meal_logs, scraper>>

\* delete_meal from its second await on: delete_one has removed a document
\* that passes the filter, or none (deleted_count == 0)
DeleteOne ==
    \E r \in 1..MaxRequests :
        /\ requests[r].endpoint = "delete_meal"
        /\ requests[r].pc = "delete_one"
        /\ \/ /\ \E meal \in meal_logs :
                    /\ OwnMeal(meal, requests[r].input[1], requests[r].current_user[1])
                    /\ meal_logs' = meal_logs \ {meal}
              /\ requests' = [requests EXCEPT ![r] =
                                  Responded(@, 200, "Meal deleted successfully")]
           \/ /\ \A meal \in meal_logs :
                    ~OwnMeal(meal, requests[r].input[1], requests[r].current_user[1])
              /\ meal_logs' = meal_logs
              /\ requests' = [requests EXCEPT ![r] = Responded(@, 404, "Meal not found")]
        /\ UNCHANGED <<users, scraper>>

NextMeals ==
    \/ LogMeal
    \/ DeleteMeal
    \/ DeleteOne

SpecMeals == Init /\ [][NextMeals]_vars

----------------------------------------------------------------------------
(* Properties *)

\* the document a finished scrape_location call parsed
ScrapedSoup == arg.site[LocationKey(arg.location_name)].soup

ScrapeReturned == op = "scrape_location" /\ raised = "none"

ReturnsRecords ==
    /\ op \in {"_parse_nutrition_table", "_parse_nutrition_cards", "scrape_location"}
    /\ raised = "none"

\* C1: the sequence returned by scrape_location has no two records whose
\* names are equal when compared case-insensitively
C1_NoDuplicateNames ==
    ScrapeReturned =>
        \A i, j \in 1..Len(ret) : i # j => lower(ret[i].name) # lower(ret[j].name)

\* a scrape whose extractors produced the same name in two spellings
C1_Witness ==
    /\ ScrapeReturned
    /\ Len(ret) >= 1
    /\ \E i, j \in 1..Len(Extracted(ScrapedSoup)) :
          /\ Extracted(ScrapedSoup)[i].name # Extracted(ScrapedSoup)[j].name
          /\ lower(Extracted(ScrapedSoup)[i].name) = lower(Extracted(ScrapedSoup)[j].name)

\* a record without the location and meal type scrape_location sets
Unstamped(r) == [r EXCEPT !.dining_location = None, !.meal_type = None]

\* the records of the text-pattern extractor that come from card containers
CardRecords(soup) ==
    LET cards == SelectSeq(soup, LAMBDA e : e.kind = "card")
    IN  Appended([i \in 1..Len(cards) |-> CardEntry(cards[i])])

\* C2: for every name the attribute-based extractor produced, the output of
\* scrape_location has exactly one record of that name (case-insensitively),
\* and it carries, in every field, the values of the attribute-based
\* extractor's first record of that name, whatever the text-pattern
\* extractor produced for the name
C2_AttributeRecordWins ==
    ScrapeReturned =>
        LET table == parse_nutrition_table(ScrapedSoup)
        IN  \A k \in 1..Len(table) :
                LET same == {i \in 1..Len(table) : lower(table[i].name) = lower(table[k].name)}
                    first == CHOOSE i \in same : \A m \in same : i <= m
                    out == {j \in 1..Len(ret) : lower(ret[j].name) = lower(table[k].name)}
                IN  /\ Cardinality(out) = 1
                    /\ \A j \in out : Unstamped(ret[j]) = table[first]

\* both extractors produced a record for one name, with differing values
C2_Witness ==
    /\ ScrapeReturned
    /\ \E t \in Range(parse_nutrition_table(ScrapedSoup)),
          c \in Range(CardRecords(ScrapedSoup)) :
            /\ lower(t.name) = lower(c.name)
            /\ t.calories # c.calories
            /\ \E r \in Range(ret) : Unstamped(r) = t

Substantive(r) ==
    \/ r.calories # None
    \/ r.protein # None
    \/ r.total_fat # None
    \/ r.total_carbohydrates # None

\* C3: every record returned by _parse_nutrition_table, _parse_nutrition_cards
\* and scrape_location has at least one of calories, protein, total_fat,
\* total_carbohydrates present
C3_SubstantiveData ==
    ReturnsRecords => \A i \in 1..Len(ret) : Substantive(ret[i])

\* the text-pattern extractor kept a record and dropped a validly named card
\* whose text has no nutrition figure
C3_Witness ==
    /\ op = "_parse_nutrition_cards"
    /\ Len(ret) >= 1
    /\ \E e \in Range(arg.soup) :
          e.kind = "card" /\ e.hasName /\ Len(strip(e.nameText)) >= 2 /\ e.body = BodyNoData

\* the field of NutritionData each numeric attribute is stored in
FieldOf ==
    [a \in NumericAttrs |->
        CASE a = "data-calories" -> "calories"
          [] a = "data-protein" -> "protein"
          [] a = "data-total-fat" -> "total_fat"
          [] a = "data-sat-fat" -> "saturated_fat"
          [] a = "data-trans-fat" -> "trans_fat"
          [] a = "data-cholesterol" -> "cholesterol"
          [] a = "data-sodium" -> "sodium"
          [] a = "data-total-carb" -> "total_carbohydrates"
          [] a = "data-dietary-fiber" -> "dietary_fiber"
          [] a = "data-sugars" -> "total_sugars"]

\* the value one attribute of an entry parses to, on its own
Parsed(e, a) ==
    IF a = "data-calories" THEN IntAttr(e.attrs[a]) ELSE NumAttr(e.attrs[a])

SubstantiveAttrs == {"data-calories", "data-protein", "data-total-fat", "data-total-carb"}

\* an entry with an anchor and a valid name, one of whose four substantive
\* attributes parsed to a value
LiQualifies(e) ==
    /\ e.link
    /\ Len(FoodName(e)) >= 2
    /\ \E a \in SubstantiveAttrs : Parsed(e, a) # None

\* a card with a valid name, one of whose four patterns matched
CardQualifies(e) ==
    /\ e.hasName
    /\ Len(strip(e.nameText)) >= 2
    /\ \/ SearchQuantity(CardText(e), FALSE, FALSE, cal) # None
       \/ \E w \in {protein, fat, carb} : SearchQuantity(CardText(e), TRUE, TRUE, w) # None

\* C4: each extractor retains every validly named entry one of whose four
\* substantive fields parsed to a value, a value of zero included
C4_ZeroValueRetained ==
    /\ op = "_parse_nutrition_table" =>
          Len(ret) = Len(SelectSeq(LightboxItems(arg.soup), LiQualifies))
    /\ op = "_parse_nutrition_cards" =>
          Len(ret) = Len(SelectSeq(NutritionCards(arg.soup), CardQualifies))
                      + Len(SelectSeq(LightboxItems(arg.soup), LiQualifies))

NumericFields == {FieldOf[a] : a \in NumericAttrs}

\* C5: in every record of either extractor and of scrape_location, every
\* numeric field that is set is greater than or equal to zero
C5_NonNegativeFields ==
    ReturnsRecords =>
        \A i \in 1..Len(ret) : \A f \in NumericFields : ret[i][f] # None => ret[i][f][1] >= 0

\* the characters of a text that are digits or decimal points, in order
DigitsAndPoints(text) == SelectSeq(text, LAMBDA c : IsDigit(c) \/ c = ".")

\* digits with at most one decimal point and at least one digit
IsDecimal(t) ==
    /\ Cardinality({i \in 1..Len(t) : t[i] = "."}) <= 1
    /\ \E i \in 1..Len(t) : IsDigit(t[i])

\* the number a decimal denotes, in units of 10^-FracDigits: the sum of its
\* digits, each weighted by its place
RECURSIVE PlaceSum(_, _, _)
PlaceSum(t, i, point) ==
    IF i > Len(t) THEN 0
    ELSE PlaceSum(t, i + 1, point)
         + (IF i < point THEN DigitVal(t[i]) * Pow10(FracDigits + point - 1 - i)
            ELSE IF i > point THEN DigitVal(t[i]) * Pow10(FracDigits - (i - point))
            ELSE 0)

DecimalValue(t) ==
    LET points == {i \in 1..Len(t) : t[i] = "."}
    IN  PlaceSum(t, 1, IF points = {} THEN Len(t) + 1 ELSE CHOOSE i \in points : TRUE)

\* C6: _extract_number_from_text never raises; it returns the decimal value
\* of the digits and decimal points of its input, which is never negative,
\* and returns absent when the input is empty, has no digit or decimal
\* point, or its digits and points are not a decimal
C6_NormalizerTotal ==
    op = "_extract_number_from_text" =>
        /\ raised = "none"
        /\ LET cleaned == DigitsAndPoints(arg.text)
           IN  IF arg.text = <<>> \/ cleaned = <<>> \/ ~IsDecimal(cleaned)
               THEN ret = None
               ELSE ret = Some(DecimalValue(cleaned)) /\ ret[1] >= 0

\* a text with a minus sign and a decimal point normalised to a positive value
C6_Witness ==
    /\ op = "_extract_number_from_text"
    /\ "-" \in Range(arg.text)
    /\ "." \in Range(arg.text)
    /\ ret # None
    /\ ret[1] > 0

\* C7: in _parse_nutrition_table an entry with a valid name, one attribute
\* of which is missing or malformed while another substantive field is
\* present, yields a record in which exactly that field is absent and every
\* other field has the value its own attribute parses to
C7_IndependentAttributes ==
    op = "_parse_nutrition_table" =>
        \A e \in Range(arg.soup) :
            (arg.soup = <<e>> /\ e.kind = "li" /\ e.link /\ Len(FoodName(e)) >= 2) =>
                \A a \in NumericAttrs :
                    (/\ Parsed(e, a) = None
                     /\ \E b \in SubstantiveAttrs \ {a} : Parsed(e, b) # None)
                    => /\ Len(ret) = 1
                       /\ ret[1][FieldOf[a]] = None
                       /\ \A b \in NumericAttrs \ {a} : ret[1][FieldOf[b]] = Parsed(e, b)

\* an element whose name is empty or shorter than 2 characters
ShortNamed(e) ==
    \/ e.kind = "li" /\ e.link /\ Len(FoodName(e)) < 2
    \/ e.kind = "card" /\ e.hasName /\ Len(strip(e.nameText)) < 2

\* C8: no record of either extractor or of scrape_location has a name
\* shorter than 2 characters, and each extractor returns what it returns for
\* the document without the entries and cards of such names
C8_ShortNamesDiscarded ==
    /\ ReturnsRecords => \A i \in 1..Len(ret) : Len(ret[i].name) >= 2
    /\ op = "_parse_nutrition_table" =>
          ret = parse_nutrition_table(SelectSeq(arg.soup, LAMBDA e : ~ShortNamed(e)))
    /\ op = "_parse_nutrition_cards" =>
          ret = parse_nutrition_cards(SelectSeq(arg.soup, LAMBDA e : ~ShortNamed(e)))

\* the attribute-based extractor kept a record from a document that also has
\* an entry of a one-character name with all four substantive attributes
C8_Witness ==
    /\ op = "_parse_nutrition_table"
    /\ Len(ret) >= 1
    /\ \E e \in Range(arg.soup) :
          /\ e.kind = "li" /\ e.link /\ Len(FoodName(e)) = 1
          /\ \A a \in SubstantiveAttrs : Parsed(e, a) # None

\* the location lower-cased, spaces replaced by underscores
NormalizedKey(location_name) ==
    [i \in 1..Len(location_name) |->
        IF location_name[i] = " " THEN "_" ELSE LowerChar(location_name[i])]

Registered(key) == \E k \in 1..Len(all_locations) : all_locations[k] = key

\* C9: scrape_location with a location whose normalized key is not in the
\* registry raises the invalid-location error, whose message lists all
\* registered keys, without having fetched anything and without records
C9_UnknownLocationRaises ==
    (op = "scrape_location" /\ ~Registered(NormalizedKey(arg.location_name))) =>
        /\ raised = "ValueError"
        /\ ret.unknown = arg.location_name
        /\ ret.available = <<berkshire, franklin, worcester, hampshire>>
        /\ fetched = <<>>

\* scrape_location raised for a location that has a space in it
C9_Witness ==
    /\ op = "scrape_location"
    /\ raised = "ValueError"
    /\ " " \in Range(arg.location_name)
    /\ fetched = <<>>

\* C10: search_food_nutrition in single-location mode with an unregistered
\* location key raises the invalid-location error to its caller
C10_SearchSurfacesInvalidLocation ==
    (/\ op = "search_food_nutrition"
     /\ StrTruthy(arg.location)
     /\ ~Registered(NormalizedKey(arg.location[1])))
    => raised = "ValueError"

\* a finished search_food_nutrition call over all locations
SearchedAll == op = "search_food_nutrition" /\ ~StrTruthy(arg.location)

\* the name has the query in it, letter case aside
NameHas(name, query) ==
    \E i \in 0..(Len(name) - Len(query)) :
        \A j \in 1..Len(query) : LowerChar(name[i + j]) = LowerChar(query[j])

\* what the k-th registered location adds to a search over this site: the
\* records of its scrape_location whose names have the query, or nothing
\* when its page cannot be fetched
Found(food_name, site, k) ==
    IF site[all_locations[k]].ok
    THEN SelectSeq(scrape_location(all_locations[k], site).value,
                   LAMBDA r : NameHas(r.name, food_name))
    ELSE <<>>

\* C11: search_food_nutrition over all locations requests every registered
\* location once, in registry order, does not raise whichever of them fail,
\* and returns, in registry order, the matching records of the locations
\* that answered
C11_SearchAllSkipsFailures ==
    SearchedAll =>
        /\ raised = "none"
        /\ fetched = [k \in 1..Len(all_locations) |-> Url(all_locations[k])]
        /\ ret = Appended([k \in 1..Len(all_locations) |->
                              Found(arg.food_name, arg.site, k)])

\* the first and third locations failed, the second and fourth answered with
\* matching records
C11_Witness ==
    /\ SearchedAll
    /\ ~arg.site[berkshire].ok
    /\ ~arg.site[worcester].ok
    /\ Found(arg.food_name, arg.site, 2) # <<>>
    /\ Found(arg.food_name, arg.site, 4) # <<>>
    /\ Len(ret) = Len(Found(arg.food_name, arg.site, 2)) + Len(Found(arg.food_name, arg.site, 4))

\* a registered key as scrape_location writes it into a record: the keys are
\* single lower-case words, so the first letter in upper case
Capitalized(key) == [i \in 1..Len(key) |-> IF i = 1 THEN UpperChar(key[i]) ELSE key[i]]

\* the positions of the result that hold a record of this name, letter case
\* aside, with the location of the k-th registered key and the meal "Lunch"
ResultsFrom(name, k) ==
    { p \in 1..Len(ret) :
        /\ lower(ret[p].name) = lower(name)
        /\ ret[p].dining_location = Some(Capitalized(all_locations[k]))
        /\ ret[p].meal_type = Some("Lunch") }

\* C12: the result of search_food_nutrition over all locations is not
\* deduplicated across locations: every matching record of every location
\* that answered has exactly one record of its name in the result that has
\* the formatted name of that location and the meal "Lunch", so a dish that
\* matches at two locations is returned twice, once per location
C12_NoDedupAcrossLocations ==
    SearchedAll =>
        \A k \in 1..Len(all_locations) :
            \A m \in Range(Found(arg.food_name, arg.site, k)) :
                Cardinality(ResultsFrom(m.name, k)) = 1

\* the same dish matched at berkshire and at franklin and is returned twice,
\* once with each location
C12_Witness ==
    /\ SearchedAll
    /\ \E p, q \in 1..Len(ret) :
        /\ p < q
        /\ ret[p].name = ret[q].name
        /\ ret[p].dining_location = Some(<<"B", "e", "r", "k", "s", "h", "i", "r", "e">>)
        /\ ret[q].dining_location = Some(<<"F", "r", "a", "n", "k", "l", "i", "n">>)

\* a scrape_location call with the arguments, and so the markup, of the call
\* whose outcome was kept
ScrapedAgain ==
    /\ op = "scrape_location"
    /\ earlier # None
    /\ arg = earlier[1].arg

SearchedOne ==
    /\ op = "search_food_nutrition"
    /\ StrTruthy(arg.location)
    /\ Registered(NormalizedKey(arg.location[1]))
    /\ arg.site[NormalizedKey(arg.location[1])].ok

\* C14: search_food_nutrition for one registered location whose scrape
\* succeeds returns the records of scrape_location for that location whose
\* names have the query in them, letter case aside, in their order and with
\* every field as scrape_location returned it
C14_SearchOneFilters ==
    SearchedOne =>
        /\ raised = "none"
        /\ ret = SelectSeq(scrape_location(arg.location[1], arg.site).value,
                           LAMBDA r : NameHas(r.name, arg.food_name))

\* some records of the location are returned and some are not, and the first
\* one returned has the query in another letter case
C14_Witness ==
    /\ SearchedOne
    /\ ret # <<>>
    /\ Len(ret) < Len(scrape_location(arg.location[1], arg.site).value)
    /\ ~Contains(ret[1].name, arg.food_name)

IsLetter(c) == IsUpper(c) \/ IsLower(c)

\* the location as the caller wrote it, each underscore a space, each letter
\* that starts a word in upper case and every other letter in lower case
Displayed(location_name) ==
    [i \in 1..Len(location_name) |->
        IF location_name[i] = "_" THEN " "
        ELSE IF i > 1 /\ IsLetter(location_name[i - 1]) THEN LowerChar(location_name[i])
        ELSE UpperChar(location_name[i])]

\* C15: every record scrape_location returns has as its location the
\* location name the caller supplied, underscores replaced by spaces and
\* title-cased, and as its meal "Lunch"; the records of the two extractors
\* have neither set; the markup has no part in either field
C15_StampedFromArgument ==
    /\ ScrapeReturned =>
          \A i \in 1..Len(ret) :
              /\ ret[i].dining_location = Some(Displayed(arg.location_name))
              /\ ret[i].meal_type = Some("Lunch")
    /\ op \in {"_parse_nutrition_table", "_parse_nutrition_cards"} =>
          \A i \in 1..Len(ret) :
              /\ ret[i].dining_location = None
              /\ ret[i].meal_type = None

\* scrape_location("FRANKLIN") returned records of the location "Franklin"
C15_Witness ==
    /\ ScrapeReturned
    /\ arg.location_name = <<"F", "R", "A", "N", "K", "L", "I", "N">>
    /\ Len(ret) = 2
    /\ ret[2].dining_location = Some(<<"F", "r", "a", "n", "k", "l", "i", "n">>)
    /\ ret[2].meal_type = Some("Lunch")

\* C16: on every document, every record of _parse_nutrition_table has a
\* record of its name in the output of _parse_nutrition_cards, and that
\* output is the records of the card containers followed by the records of
\* the re-scan of the list entries, one for each record of
\* _parse_nutrition_table, in its order and with its name
C16_RescanCoversTable ==
    op = "_parse_nutrition_cards" =>
        LET table == parse_nutrition_table(arg.soup)
            cards == CardRecords(arg.soup)
        IN  /\ \A t \in Range(table) : \E c \in Range(ret) : c.name = t.name
            /\ Len(ret) = Len(cards) + Len(table)
            /\ SubSeq(ret, 1, Len(cards)) = cards
            /\ \A k \in 1..Len(table) : ret[Len(cards) + k].name = table[k].name

\* a document with a list entry before a card: the card's record comes first,
\* the entry's record after it
C16_Witness ==
    /\ op = "_parse_nutrition_cards"
    /\ Len(arg.soup) = 2
    /\ arg.soup[1].kind = "li"
    /\ arg.soup[2].kind = "card"
    /\ Len(ret) = 2
    /\ Len(parse_nutrition_table(arg.soup)) = 1
    /\ ret[2].name = parse_nutrition_table(arg.soup)[1].name
    /\ ret[1].name # ret[2].name

\* what the elements of a document yield when _parse_nutrition_table is given
\* each of them alone, in the order of the document
RECURSIVE EntryByEntry(_)
EntryByEntry(soup) ==
    IF soup = <<>> THEN <<>>
    ELSE parse_nutrition_table(<<Head(soup)>>) \o EntryByEntry(Tail(soup))

\* C17: _parse_nutrition_table returns one record for each entry it retains,
\* in document order and without deduplicating: its output on a document is
\* what its entries yield one by one, each at most one record, so two valid
\* entries of one name give two records; an entry without a link yields
\* nothing and leaves the records of the other entries as they are
C17_EntryByEntry ==
    op = "_parse_nutrition_table" =>
        /\ ret = EntryByEntry(arg.soup)
        /\ \A i \in 1..Len(arg.soup) :
              /\ Len(parse_nutrition_table(<<arg.soup[i]>>)) <= 1
              /\ (arg.soup[i].kind = "li" /\ ~arg.soup[i].link) =>
                     parse_nutrition_table(<<arg.soup[i]>>) = <<>>

\* two entries of one name around an entry without a link: two records of
\* that name
C17_Witness ==
    /\ op = "_parse_nutrition_table"
    /\ Len(arg.soup) = 3
    /\ ~arg.soup[2].link
    /\ Len(ret) = 2
    /\ ret[1].name = ret[2].name

\* C18: scrape_all_locations returns a mapping that has exactly the
\* registered keys; a location whose scrape fails maps to the empty list,
\* every other location to the records of its scrape_location, whichever
\* locations before or after it failed, and every location is requested
C18_EveryLocationRecorded ==
    op = "scrape_all_locations" =>
        /\ raised = "none"
        /\ DOMAIN ret = {berkshire, franklin, worcester, hampshire}
        /\ \A k \in 1..Len(all_locations) :
              ret[all_locations[k]] =
                  IF arg.site[all_locations[k]].ok
                  THEN scrape_location(all_locations[k], arg.site).value
                  ELSE <<>>
        /\ fetched = [k \in 1..Len(all_locations) |-> Url(all_locations[k])]

\* franklin failed between berkshire and worcester, which have records
C18_Witness ==
    /\ op = "scrape_all_locations"
    /\ ~arg.site[franklin].ok
    /\ ret[franklin] = <<>>
    /\ ret[berkshire] # <<>>
    /\ ret[worcester] # <<>>
    /\ ~arg.site[hampshire].ok

\* the records of the second loop of _parse_nutrition_cards: what its output
\* has after the records of the card containers
RescanRecords(soup) ==
    SubSeq(parse_nutrition_cards(soup), Len(CardRecords(soup)) + 1,
           Len(parse_nutrition_cards(soup)))

\* C19: the re-scan of the list entries inside _parse_nutrition_cards changes
\* nothing in the pipeline: on every document the output of scrape_location
\* is, record for record and field for field, the merge of the records of
\* _parse_nutrition_table followed by the card-container records alone,
\* every re-scan record having the name of a record of _parse_nutrition_table
C19_RescanRedundant ==
    ScrapeReturned =>
        /\ ret = Unique(parse_nutrition_table(ScrapedSoup) \o CardRecords(ScrapedSoup),
                        {}, arg.location_name)
        /\ \A r \in Range(RescanRecords(ScrapedSoup)) :
              \E t \in Range(parse_nutrition_table(ScrapedSoup)) : t.name = r.name

\* a page with a list entry and a card of another name: the re-scan has a
\* record, and the output has the entry's and the card's records only
C19_Witness ==
    /\ ScrapeReturned
    /\ Len(RescanRecords(ScrapedSoup)) = 1
    /\ Len(CardRecords(ScrapedSoup)) = 1
    /\ Len(ret) = 2
    /\ Unstamped(ret[2]) = CardRecords(ScrapedSoup)[1]

\* the name, location and meal of a record
Stamp(r) == <<r.name, r.dining_location, r.meal_type>>

\* the records scrape_location returns for the registered locations that
\* answer
ScrapedAnywhere(site) ==
    UNION { Range(scrape_location(key, site).value) :
                key \in {k \in Range(all_locations) : site[k].ok} }

\* C20: the location scrape_location writes into its records depends only on
\* the registry key the location name resolves to, so spellings of one key
\* (in another letter case) give the same location; and every record a search
\* over all locations returns has the name, location and meal of a record
\* scrape_location returned for one of the locations: the search's own
\* setting of the two fields changes neither
C20_StampFromKey ==
    /\ ScrapeReturned =>
          \A i \in 1..Len(ret) :
              ret[i].dining_location = Some(Displayed(NormalizedKey(arg.location_name)))
    /\ SearchedAll =>
          {Stamp(r) : r \in Range(ret)} \subseteq {Stamp(m) : m \in ScrapedAnywhere(arg.site)}

\* scrape_location("Berkshire") returned records with the location that
\* scrape_location("berkshire") writes
C20_Witness ==
    /\ ScrapeReturned
    /\ arg.location_name # NormalizedKey(arg.location_name)
    /\ NormalizedKey(arg.location_name) = berkshire
    /\ ret # <<>>
    /\ ret[1].dining_location = Some(FormatLocation(berkshire))

\* C21: whatever register requests are made and however their steps
\* interleave, no two stored users have the same email, and a register
\* request rejected with 400 is one for an email that is stored
C21_OneUserPerEmail ==
    /\ \A u, v \in users : u.email = v.email => u = v
    /\ \A r \in 1..MaxRequests :
          (requests[r].endpoint = "register" /\ requests[r].status_code = 400) =>
              \E u \in users : u.email = requests[r].input[1].email

\* the meal logs a step removes
Removed == meal_logs \ meal_logs'

\* the step is the successful delete, by request r, of this meal, made as
\* the user who logged it
DeletedBy(r, meal) ==
    /\ requests[r].endpoint = "delete_meal"
    /\ requests[r].pc = "delete_one"
    /\ requests'[r].status_code = 200
    /\ requests[r].input = Some(meal["_id"])
    /\ requests[r].current_user = Some(meal.user_id)

\* the stored meal log of this id that this user logged, if there is one
LoggedBy(meal_id, user) ==
    {meal \in meal_logs : meal.id = meal_id /\ meal.user_id = user}

\* C22: over any log_meal and delete_meal requests of any users, a step
\* removes a meal log only as the successful delete_meal of its owner for
\* its id, and then removes that meal log alone; a delete_meal for an id
\* that is not stored or is another user's meal is answered 404, and a step
\* that answers a delete_meal with 404 changes no meal log
C22_OnlyOwnerDeletes ==
    [][/\ \A meal \in Removed :
            \E r \in 1..MaxRequests :
                DeletedBy(r, meal) /\ meal_logs' = meal_logs \ {meal}
       /\ \A r \in 1..MaxRequests :
            (requests'[r] # requests[r] /\ requests'[r].endpoint = "delete_meal") =>
                /\ requests'[r].status_code = 404 => meal_logs' = meal_logs
                /\ requests'[r].status_code = 200 => Cardinality(Removed) = 1
                /\ (/\ requests[r].pc = "new"
                    /\ LoggedBy(requests'[r].input[1], requests'[r].current_user[1]) = {})
                   => requests'[r].status_code = 404]_vars

\* ann logged a meal; bob's delete_meal for it was answered 404; ann's was
\* answered 200 and the meal log is gone
C22_Witness ==
    /\ requests[1].endpoint = "log_meal"
    /\ requests[1].current_user = Some("ann")
    /\ requests[2].endpoint = "delete_meal"
    /\ requests[2].current_user = Some("bob")
    /\ requests[2].input = Some(1)
    /\ requests[2].status_code = 404
    /\ requests[3].endpoint = "delete_meal"
    /\ requests[3].current_user = Some("ann")
    /\ requests[3].input = Some(1)
    /\ requests[3].status_code = 200
    /\ meal_logs = {}

====
